---- MODULE Spec2Model ----
(***************************************************************************)
(* Model of src/main.cpp: the RateLimiter (an atomic timestamp guarded by  *)
(* a compare-and-swap), the two exchange fetches, the aggregation of the   *)
(* two order books in main, and the greedy matchers executeBuy and         *)
(* executeSell.                                                            *)
(*                                                                         *)
(* Units.  Clock values are whole seconds (the source counts nanoseconds;  *)
(* 2'000'000'000 ns is Cooldown = 2).  Quantities are multiples of 0.5     *)
(* BTC, prices are whole dollars, so costs are multiples of half a dollar. *)
(*                                                                         *)
(* Arithmetic.  price, qty, cost and revenue are C++ doubles.  A double is *)
(* modelled as a binary floating-point number with a Precision-bit         *)
(* significand and round-to-nearest-even (IEEE 754 has 53 bits; the width  *)
(* is reduced so that the values at which rounding starts are small enough *)
(* to enumerate).  Every value below 2^Precision is exact.                 *)
(***************************************************************************)
EXTENDS Integers, Sequences, FiniteSets

VARIABLES
    clock,        \* Clock::now(), in seconds
    lastCallNs,   \* RateLimiter::lastCallNs of each source's limiter
    tpc,          \* position of each thread inside allow()
    now,          \* allow(): local `now` of each thread (0 outside a call)
    last,         \* allow(): local `last` of each thread (0 outside a call)
    calls,        \* history: completed allow() calls, in order of completion
    wins,         \* history: successful compare-and-swaps
    started,      \* history: number of allow() calls begun
    pc,           \* position of main
    qty,          \* main: qty
    cb, gm,       \* main: the two fetched order books
    failed,       \* history: sources whose fetch hit a transport/parse failure
    bids, asks,   \* main: the merged pools
    i,            \* position of the range-for inside the running matcher
    rem,          \* executeBuy / executeSell: the by-value parameter qty
    cost,         \* executeBuy: cost
    revenue,      \* executeSell: revenue
    takes,        \* history: the takes of the running matcher call
    buyCost, sellRevenue,   \* main: the two results
    out,          \* the values printed so far
    round,        \* 1 for the merge order [cb, gm], 2 after the sources are exchanged
    ties          \* how this build's std::sort orders equivalent elements

limVars   == <<clock, lastCallNs, tpc, now, last, calls, wins, started>>
mainVars  == <<pc, qty, cb, gm, failed, bids, asks, buyCost, sellRevenue, out, round, ties>>
matchVars == <<i, rem, cost, revenue, takes>>
vars == <<clock, lastCallNs, tpc, now, last, calls, wins, started,
          pc, qty, cb, gm, failed, bids, asks, i, rem, cost, revenue, takes,
          buyCost, sellRevenue, out, round, ties>>

----------------------------------------------------------------------------
(* Bounds *)

Precision  == 16     \* significand width of the modelled double
MaxLevels  == 3      \* levels in the two source books together
MaxClock   == 5      \* last clock value
MaxCalls   == 3      \* allow() calls begun in one behaviour
NumThreads == 2      \* threads calling allow() on one limiter

(* Program constants *)

Cooldown   == 2      \* 2'000'000'000LL nanoseconds
DefaultQty == 20     \* double qty = 10.0

Sources == {"coinbase", "gemini"}
Threads == 1..NumThreads
Shared  == "coinbase"        \* the limiter instance the threads share

----------------------------------------------------------------------------
(* double arithmetic *)

RECURSIVE Ulp(_, _)
Ulp(x, u) == IF x \div u < 2^Precision THEN u ELSE Ulp(x, 2 * u)

RoundAbs(x) ==
    LET u == Ulp(x, 1)
        m == x \div u
        r == x % u
        up == 2 * r > u \/ (2 * r = u /\ m % 2 = 1)
    IN  (IF up THEN m + 1 ELSE m) * u

Round(x) == IF x < 0 THEN 0 - RoundAbs(0 - x) ELSE RoundAbs(x)

FAdd(a, b) == Round(a + b)
FSub(a, b) == Round(a - b)
FMul(a, b) == Round(a * b)

StdMin(a, b) == IF b < a THEN b ELSE a

----------------------------------------------------------------------------
(* Order, OrderBook *)

Order(p, q) == [price |-> p, qty |-> q]
EmptyBook == [bids |-> <<>>, asks |-> <<>>]

----------------------------------------------------------------------------
(* RateLimiter::allow, one step per shared-memory access *)

\* the cooldown written a second too short
DeniedShort(n, l) == n - l < Cooldown - 1

\* if (now - last < 2'000'000'000LL) return false;
Denied(n, l) == n - l < Cooldown

\* a swap whose result is dropped: the call reports success whatever it found
CasAlwaysSucceeds(cur, expected) == TRUE

\* compare_exchange_strong(last, now): the comparison
CasSucceeds(cur, expected) == cur = expected

\* a swap that writes the new value whether or not the comparison held
CasStoreAlways(cur, expected, desired) == desired

\* compare_exchange_strong(last, now): the value the atomic holds afterwards
CasStore(cur, expected, desired) == IF cur = expected THEN desired ELSE cur

\* now = Clock::now()...count();
ReadClock(t) ==
    /\ tpc[t] = "idle"
    /\ started < MaxCalls
    /\ started' = started + 1
    /\ now' = [now EXCEPT ![t] = clock]
    /\ tpc' = [tpc EXCEPT ![t] = "load"]
    /\ UNCHANGED <<clock, lastCallNs, last, calls, wins>>
    /\ UNCHANGED <<mainVars, matchVars>>

\* last = lastCallNs.load();
Load(t) ==
    /\ tpc[t] = "load"
    /\ last' = [last EXCEPT ![t] = lastCallNs[Shared]]
    /\ tpc' = [tpc EXCEPT ![t] = "test"]
    /\ UNCHANGED <<clock, lastCallNs, now, calls, wins, started>>
    /\ UNCHANGED <<mainVars, matchVars>>

\* the elapsed-time test fails: return false
ReturnDenied(t) ==
    /\ tpc[t] = "test"
    /\ Denied(now[t], last[t])
    /\ calls' = Append(calls, [at |-> now[t], ret |-> FALSE, cas |-> FALSE])
    /\ tpc' = [tpc EXCEPT ![t] = "idle"]
    /\ now' = [now EXCEPT ![t] = 0]
    /\ last' = [last EXCEPT ![t] = 0]
    /\ UNCHANGED <<clock, lastCallNs, wins, started>>
    /\ UNCHANGED <<mainVars, matchVars>>

\* return lastCallNs.compare_exchange_strong(last, now);
CompareExchange(t) ==
    /\ tpc[t] = "test"
    /\ ~Denied(now[t], last[t])
    /\ LET ok == CasSucceeds(lastCallNs[Shared], last[t])
       IN  /\ lastCallNs' = [lastCallNs EXCEPT
                  ![Shared] = CasStore(lastCallNs[Shared], last[t], now[t])]
           /\ calls' = Append(calls, [at |-> now[t], ret |-> ok, cas |-> TRUE])
           /\ wins' = IF ok THEN Append(wins, [thread |-> t, sample |-> now[t], at |-> clock])
                      ELSE wins
    /\ tpc' = [tpc EXCEPT ![t] = "idle"]
    /\ now' = [now EXCEPT ![t] = 0]
    /\ last' = [last EXCEPT ![t] = 0]
    /\ UNCHANGED <<clock, started>>
    /\ UNCHANGED <<mainVars, matchVars>>

\* steady_clock advances
Tick ==
    /\ clock < MaxClock
    /\ clock' = clock + 1
    /\ UNCHANGED <<lastCallNs, tpc, now, last, calls, wins, started>>
    /\ UNCHANGED <<mainVars, matchVars>>

Allow(t) == ReadClock(t) \/ Load(t) \/ ReturnDenied(t) \/ CompareExchange(t)

----------------------------------------------------------------------------
(* CoinbaseExchange::fetch, GeminiExchange::fetch *)

\* the largest power of two at whose scale a half-BTC unit is below one ulp
Big == 2^(Precision + 1)

ExampleAsks == <<Order(50000, 1), Order(50010, 4)>>
ExampleBids == <<Order(100, 2), Order(90, 10)>>

\* the bodies a transfer can leave in `response`, with the levels a good body lists
Responses ==
    {[kind |-> "ok", book |-> b] :
        b \in {[bids |-> ExampleBids, asks |-> ExampleAsks],
               [bids |-> <<Order(9, 1), Order(7, 2)>>, asks |-> <<Order(9, 1), Order(7, Big)>>]}}
    \cup {[kind |-> k, book |-> EmptyBook] :
            k \in {"no_body", "truncated", "no_books", "bad_entry"}}

\* json::parse(response) throws on an empty or cut-off body; b[0].get<std::string>()
\* and std::stod throw on an entry of the wrong shape; j["bids"] of an object
\* without that key is null and the range-for over it runs zero times.
ParseThrows(r) == r.kind \in {"no_body", "truncated", "bad_entry"}

\* every way one fetch() of source s can end in the current state
FetchOutcomes(s) ==
    IF Denied(clock, lastCallNs[s])
    THEN {[ob |-> EmptyBook, stored |-> lastCallNs[s], thrown |-> FALSE, failure |-> FALSE]}
    ELSE {[ob      |-> r.book,
           stored  |-> CasStore(lastCallNs[s], lastCallNs[s], clock),
           thrown  |-> ParseThrows(r),
           failure |-> r.kind # "ok"] : r \in Responses}

\* OrderBook cb = coinbase.fetch();
FetchCoinbase ==
    /\ pc = "fetch_cb"
    /\ \E o \in FetchOutcomes("coinbase") :
        /\ lastCallNs' = [lastCallNs EXCEPT !["coinbase"] = o.stored]
        /\ failed' = IF o.failure THEN failed \cup {"coinbase"} ELSE failed
        /\ IF o.thrown
           THEN pc' = "terminated" /\ cb' = cb
           ELSE pc' = "fetch_gm" /\ cb' = o.ob
    /\ UNCHANGED <<clock, tpc, now, last, calls, wins, started>>
    /\ UNCHANGED <<qty, gm, bids, asks, buyCost, sellRevenue, out, round, ties>>
    /\ UNCHANGED matchVars

\* OrderBook gm = gemini.fetch();
FetchGemini ==
    /\ pc = "fetch_gm"
    /\ \E o \in FetchOutcomes("gemini") :
        /\ lastCallNs' = [lastCallNs EXCEPT !["gemini"] = o.stored]
        /\ failed' = IF o.failure THEN failed \cup {"gemini"} ELSE failed
        /\ IF o.thrown
           THEN pc' = "terminated" /\ gm' = gm
           ELSE pc' = "aggregate" /\ gm' = o.ob
    /\ UNCHANGED <<clock, tpc, now, last, calls, wins, started>>
    /\ UNCHANGED <<qty, cb, bids, asks, buyCost, sellRevenue, out, round, ties>>
    /\ UNCHANGED matchVars

----------------------------------------------------------------------------
(* main *)

Qtys == {0 - 1, 0, 2, Big \div 2 + 2, Big, Big + 4}

\* if (argc == 3 && argv[1] == "--qty") qty = std::stod(argv[2]);
ParseArgs ==
    /\ pc = "args"
    /\ ties \in {"kept", "reversed"}
    /\ \/ pc' = "fetch_cb" /\ qty' = qty
       \/ \E q \in Qtys : pc' = "fetch_cb" /\ qty' = q
       \/ pc' = "terminated" /\ qty' = qty      \* std::stod throws, nothing catches
    /\ UNCHANGED <<cb, gm, failed, bids, asks, buyCost, sellRevenue, out, round, ties>>
    /\ UNCHANGED <<limVars, matchVars>>

\* bids.insert(...cb.bids...); bids.insert(...gm.bids...); the same for asks
Aggregate ==
    /\ pc = "aggregate"
    /\ bids' = cb.bids \o gm.bids
    /\ asks' = cb.asks \o gm.asks
    /\ pc' = "buy_sort"
    /\ UNCHANGED <<qty, cb, gm, failed, buyCost, sellRevenue, out, round, ties>>
    /\ UNCHANGED <<limVars, matchVars>>

\* std::cout << "To buy " ... << buyCost; std::cout << "To sell " ... << sellRevenue;
PrintResults ==
    /\ pc = "print"
    /\ out' = out \o <<buyCost, sellRevenue>>
    /\ pc' = "exit"
    /\ UNCHANGED <<qty, cb, gm, failed, bids, asks, buyCost, sellRevenue, round, ties>>
    /\ UNCHANGED <<limVars, matchVars>>

\* the same two snapshots aggregated a second time, in the other order
Exchange ==
    /\ pc = "exit"
    /\ round = 1
    /\ cb' = gm
    /\ gm' = cb
    /\ round' = 2
    /\ pc' = "aggregate"
    /\ UNCHANGED <<qty, failed, bids, asks, buyCost, sellRevenue, out, ties>>
    /\ UNCHANGED <<limVars, matchVars>>

----------------------------------------------------------------------------
(* executeBuy, executeSell *)

\* the two comparators with the comparison turned round
BuyLessFlipped(a, b) == a.price > b.price
SellLessFlipped(a, b) == a.price < b.price

\* [](auto& a, auto& b) { return a.price < b.price; }
BuyLess(a, b) == a.price < b.price

\* [](auto& a, auto& b) { return a.price > b.price; }
SellLess(a, b) == a.price > b.price

\* std::sort: the permutation with no pair out of order; before holds the
\* pairs <<j, k>> of positions for which the comparator puts s[j] before s[k].
\* The standard leaves the order of equivalent elements open and a build
\* settles it one way: `ties` says whether equivalent elements keep their
\* order or come out reversed.
StdSort(s, before) ==
    LET n == Len(s)
        perms == {f \in [1..n -> 1..n] : \A j, k \in 1..n : j # k => f[j] # f[k]}
        sorted(f) ==
            \A j, k \in 1..n : j < k =>
                /\ <<f[k], f[j]>> \notin before
                /\ <<f[j], f[k]>> \notin before =>
                        IF ties = "kept" THEN f[j] < f[k] ELSE f[j] > f[k]
        f == CHOOSE g \in perms : sorted(g)
    IN  [k \in 1..n |-> s[f[k]]]

\* the pairs of positions of s that the comparators put in order
BuyBefore(s) == {p \in (1..Len(s)) \X (1..Len(s)) : BuyLess(s[p[1]], s[p[2]])}
SellBefore(s) == {p \in (1..Len(s)) \X (1..Len(s)) : SellLess(s[p[1]], s[p[2]])}

\* executeBuy without its sort
NoSort(s) == s

\* std::sort(asks.begin(), asks.end(), ...price < ...)
SortAsks(s) == StdSort(s, BuyBefore(s))

\* std::sort(bids.begin(), bids.end(), ...price > ...)
SortBids(s) == StdSort(s, SellBefore(s))

\* the take without the std::min: the whole level, whatever remains to fill
TakeWholeLevel(q, lq) == lq

\* double take = std::min(qty, o.qty);
Take(q, lq) == StdMin(q, lq)

\* std::sort(asks...); double cost = 0;
BuySort ==
    /\ pc = "buy_sort"
    /\ asks' = SortAsks(asks)
    /\ cost' = 0
    /\ rem' = qty
    /\ i' = 1
    /\ takes' = <<>>
    /\ pc' = "buy_loop"
    /\ UNCHANGED <<qty, cb, gm, failed, bids, buyCost, sellRevenue, out, round, ties>>
    /\ UNCHANGED <<limVars, revenue>>

\* one iteration of for (auto& o : asks)
BuyStep ==
    /\ pc = "buy_loop"
    /\ i <= Len(asks)
    /\ LET o == asks[i]
           take == Take(rem, o.qty)
       IN  /\ cost' = FAdd(cost, FMul(take, o.price))
           /\ rem' = FSub(rem, take)
           /\ takes' = Append(takes, take)
    /\ IF rem' <= 0
       THEN pc' = "buy_ret" /\ i' = i
       ELSE pc' = "buy_loop" /\ i' = i + 1
    /\ UNCHANGED <<qty, cb, gm, failed, bids, asks, buyCost, sellRevenue, out, round, ties>>
    /\ UNCHANGED <<limVars, revenue>>

\* the range-for runs out of levels
BuyLoopEnd ==
    /\ pc = "buy_loop"
    /\ i > Len(asks)
    /\ pc' = "buy_ret"
    /\ UNCHANGED <<qty, cb, gm, failed, bids, asks, buyCost, sellRevenue, out, round, ties>>
    /\ UNCHANGED <<limVars, matchVars>>

\* return cost;  double buyCost = executeBuy(asks, qty);
BuyReturn ==
    /\ pc = "buy_ret"
    /\ buyCost' = cost
    /\ pc' = "sell_sort"
    /\ UNCHANGED <<qty, cb, gm, failed, bids, asks, sellRevenue, out, round, ties>>
    /\ UNCHANGED <<limVars, matchVars>>

\* std::sort(bids...); double revenue = 0;
SellSort ==
    /\ pc = "sell_sort"
    /\ bids' = SortBids(bids)
    /\ revenue' = 0
    /\ rem' = qty
    /\ i' = 1
    /\ takes' = <<>>
    /\ pc' = "sell_loop"
    /\ UNCHANGED <<qty, cb, gm, failed, asks, buyCost, sellRevenue, out, round, ties>>
    /\ UNCHANGED <<limVars, cost>>

\* one iteration of for (auto& o : bids)
SellStep ==
    /\ pc = "sell_loop"
    /\ i <= Len(bids)
    /\ LET o == bids[i]
           take == Take(rem, o.qty)
       IN  /\ revenue' = FAdd(revenue, FMul(take, o.price))
           /\ rem' = FSub(rem, take)
           /\ takes' = Append(takes, take)
    /\ IF rem' <= 0
       THEN pc' = "sell_ret" /\ i' = i
       ELSE pc' = "sell_loop" /\ i' = i + 1
    /\ UNCHANGED <<qty, cb, gm, failed, bids, asks, buyCost, sellRevenue, out, round, ties>>
    /\ UNCHANGED <<limVars, cost>>

\* the range-for runs out of levels
SellLoopEnd ==
    /\ pc = "sell_loop"
    /\ i > Len(bids)
    /\ pc' = "sell_ret"
    /\ UNCHANGED <<qty, cb, gm, failed, bids, asks, buyCost, sellRevenue, out, round, ties>>
    /\ UNCHANGED <<limVars, matchVars>>

\* return revenue;  double sellRevenue = executeSell(bids, qty);
SellReturn ==
    /\ pc = "sell_ret"
    /\ sellRevenue' = revenue
    /\ pc' = "print"
    /\ UNCHANGED <<qty, cb, gm, failed, bids, asks, buyCost, out, round, ties>>
    /\ UNCHANGED <<limVars, matchVars>>

Match ==
    \/ BuySort \/ BuyStep \/ BuyLoopEnd \/ BuyReturn
    \/ SellSort \/ SellStep \/ SellLoopEnd \/ SellReturn

----------------------------------------------------------------------------
(* Specifications *)

Levels == {Order(7, 1), Order(7, 2), Order(7, Big), Order(9, 1)}
Pools  == UNION {[1..n -> Levels] : n \in 0..MaxLevels}

LimiterIdle ==
    /\ lastCallNs = [s \in Sources |-> 0]
    /\ tpc = [t \in Threads |-> "idle"]
    /\ now = [t \in Threads |-> 0]
    /\ last = [t \in Threads |-> 0]
    /\ calls = <<>>
    /\ wins = <<>>
    /\ started = 0

MatcherIdle ==
    /\ i = 1
    /\ rem = 0
    /\ cost = 0
    /\ revenue = 0
    /\ takes = <<>>

MainFresh ==
    /\ failed = {}
    /\ bids = <<>>
    /\ asks = <<>>
    /\ buyCost = 0
    /\ sellRevenue = 0
    /\ out = <<>>
    /\ round = 1

\* threads calling allow() on one freshly constructed limiter; main is not running
InitLimiter ==
    /\ clock \in 0..Cooldown
    /\ LimiterIdle
    /\ MatcherIdle
    /\ MainFresh
    /\ pc = "exit"
    /\ ties = "kept"
    /\ qty = DefaultQty
    /\ cb = EmptyBook
    /\ gm = EmptyBook

NextLimiter == Tick \/ \E t \in Threads : Allow(t)

SpecLimiter == InitLimiter /\ [][NextLimiter]_vars

\* one thread calling allow() again and again
NextSequential == Tick \/ Allow(1)

SpecSequential == InitLimiter /\ [][NextSequential]_vars

\* the whole program
InitMain ==
    /\ clock \in 0..Cooldown
    /\ LimiterIdle
    /\ MatcherIdle
    /\ MainFresh
    /\ pc = "args"
    /\ ties \in {"kept", "reversed"}
    /\ qty = DefaultQty
    /\ cb = EmptyBook
    /\ gm = EmptyBook

NextMain == ParseArgs \/ FetchCoinbase \/ FetchGemini \/ Aggregate \/ Match \/ PrintResults

SpecMain == InitMain /\ [][NextMain]_vars

\* aggregation and matching of two given snapshots, in both merge orders
InitMatch ==
    /\ clock = Cooldown
    /\ LimiterIdle
    /\ MatcherIdle
    /\ MainFresh
    /\ pc = "aggregate"
    /\ ties \in {"kept", "reversed"}
    /\ \/ /\ qty \in Qtys
          /\ \E a, b \in Pools :
                /\ Len(a) + Len(b) <= MaxLevels
                /\ \/ cb = [bids |-> <<>>, asks |-> a] /\ gm = [bids |-> <<>>, asks |-> b]
                   \/ cb = [bids |-> a, asks |-> <<>>] /\ gm = [bids |-> b, asks |-> <<>>]
       \/ /\ qty = 2
          /\ cb = [bids |-> ExampleBids, asks |-> ExampleAsks]
          /\ gm = EmptyBook

NextMatch == Aggregate \/ Match \/ PrintResults \/ Exchange

SpecMatch == InitMatch /\ [][NextMatch]_vars

----------------------------------------------------------------------------
(* Reference definitions used by the properties *)

Ascending(s)  == \A j, k \in 1..Len(s) : j < k => s[j].price <= s[k].price
Descending(s) == \A j, k \in 1..Len(s) : j < k => s[j].price >= s[k].price

Count(x, s) == Cardinality({k \in 1..Len(s) : s[k] = x})

\* s and t hold the same levels with the same multiplicities
SameLevels(s, t) ==
    /\ Len(s) = Len(t)
    /\ \A k \in 1..Len(s) : Count(s[k], s) = Count(s[k], t)

RECURSIVE SumSeq(_)
SumSeq(s) == IF s = <<>> THEN 0 ELSE Head(s) + SumSeq(Tail(s))

RECURSIVE TotalQty(_)
TotalQty(s) == IF s = <<>> THEN 0 ELSE Head(s).qty + TotalQty(Tail(s))

\* the greedy fill of q over the levels of s in the order given, added to acc
RECURSIVE GreedyFrom(_, _, _)
GreedyFrom(s, q, acc) ==
    IF s = <<>> \/ q <= 0
    THEN acc
    ELSE LET take == IF q < Head(s).qty THEN q ELSE Head(s).qty
         IN  GreedyFrom(Tail(s), FSub(q, take), FAdd(acc, FMul(take, Head(s).price)))

GreedyFill(s, q) == GreedyFrom(s, q, 0)

\* every level taken whole: the sum of quantity * price, added to acc in order
RECURSIVE FullFrom(_, _)
FullFrom(s, acc) ==
    IF s = <<>> THEN acc
    ELSE FullFrom(Tail(s), FAdd(acc, FMul(Head(s).qty, Head(s).price)))

FullCost(s) == FullFrom(s, 0)

\* levels that share a price share their quantity too
NoUnequalTies(s) ==
    \A j, k \in 1..Len(s) : s[j].price = s[k].price => s[j].qty = s[k].qty

Abs(x) == IF x < 0 THEN 0 - x ELSE x

----------------------------------------------------------------------------
(* Properties *)

\* C1: for qty > 0, executeBuy returns the greedy fill over the pool's levels
\* in ascending price order (take = min(remaining, level quantity), cost +=
\* take * price, remaining -= take, until remaining <= 0 or the levels run
\* out); asks [(50000, 0.5), (50010, 2.0)] with qty 1.0 cost 50005.
C1_BuyIsGreedyAscending ==
    (pc = "buy_ret" /\ qty > 0) =>
        /\ Ascending(asks)
        /\ SameLevels(asks, cb.asks \o gm.asks)
        /\ cost = GreedyFill(asks, qty)
        /\ (cb.asks \o gm.asks = ExampleAsks /\ qty = 2 => cost = 2 * 50005)

\* executeBuy has walked the example pool: half a BTC from each level
C1_ExampleBought ==
    /\ pc = "buy_ret"
    /\ asks = ExampleAsks
    /\ qty = 2
    /\ takes = <<1, 1>>
    /\ cost = 2 * 50005

\* C2: for qty > 0, executeSell returns the same greedy fill over the pool's
\* levels in descending price order; bids [(100, 1), (90, 5)] with qty 1 give
\* revenue 100.
C2_SellIsGreedyDescending ==
    (pc = "sell_ret" /\ qty > 0) =>
        /\ Descending(bids)
        /\ SameLevels(bids, cb.bids \o gm.bids)
        /\ revenue = GreedyFill(bids, qty)
        /\ (cb.bids \o gm.bids = ExampleBids /\ qty = 2 => revenue = 2 * 100)

\* executeSell has walked the example pool: all of it from the best bid
C2_ExampleSold ==
    /\ pc = "sell_ret"
    /\ bids = ExampleBids
    /\ qty = 2
    /\ takes = <<2>>
    /\ revenue = 2 * 100

\* C3 as stated: no two calls that return true perform their successful
\* compare-and-swap less than 2 seconds of clock time apart.
C3_SwapsApart ==
    \A j, k \in 1..Len(wins) :
        j # k => Abs(wins[j].at - wins[k].at) >= Cooldown

\* C3 as amended: no two calls that return true recorded clock samples less
\* than 2 seconds apart.
C3_SamplesApart ==
    \A j, k \in 1..Len(wins) :
        j # k => Abs(wins[j].sample - wins[k].sample) >= Cooldown

\* two threads have won a window each, and a third call lost its compare-and-swap
C3_TwoWinnersOneLoser ==
    /\ \E j, k \in 1..Len(wins) : wins[j].thread # wins[k].thread
    /\ \E k \in 1..Len(calls) : calls[k].cas /\ ~calls[k].ret

\* C4 as stated: for qty > 0 the takes of executeBuy sum to at most
\* min(qty, total quantity), and when the total quantity is below qty the
\* cost is the sum of quantity * price over all levels.
C4_NeverOverfills ==
    (pc = "buy_ret" /\ qty > 0) =>
        /\ SumSeq(takes) <= StdMin(qty, TotalQty(asks))
        /\ (TotalQty(asks) < qty => cost = FullCost(asks))

\* C4 as amended: for qty > 0 each take is at most its level's quantity, so
\* the takes sum to at most the total quantity; the remaining quantity never
\* goes below zero; and when the levels run out with a remaining quantity
\* above zero, every level was taken whole and the cost is the sum of
\* quantity * price over all levels.
C4_TakesWithinLevels ==
    (pc = "buy_ret" /\ qty > 0) =>
        /\ Len(takes) <= Len(asks)
        /\ \A k \in 1..Len(takes) : 0 <= takes[k] /\ takes[k] <= asks[k].qty
        /\ SumSeq(takes) <= TotalQty(asks)
        /\ rem >= 0
        /\ (rem > 0 => Len(takes) = Len(asks) /\ cost = FullCost(asks))

\* executeBuy ran out of levels: at least two, each taken whole
C4_PartialFill ==
    /\ pc = "buy_ret"
    /\ qty > 0
    /\ rem > 0
    /\ Len(asks) >= 2
    /\ takes = [k \in 1..Len(asks) |-> asks[k].qty]
    /\ cost = FullCost(asks)

\* C5: for qty <= 0 executeBuy returns 0 and executeSell returns 0, whatever
\* the pool; for an empty pool both return 0, whatever the qty.
C5_NothingToFillGivesZero ==
    /\ (pc = "buy_ret" /\ (qty <= 0 \/ asks = <<>>)) => cost = 0
    /\ (pc = "sell_ret" /\ (qty <= 0 \/ bids = <<>>)) => revenue = 0

\* C6: a fetch that suffers a transport or parse failure returns an empty
\* order book and the run goes on; the failure never ends the process.
C6_FetchFailureNotFatal ==
    /\ "coinbase" \in failed => pc # "terminated" /\ cb = EmptyBook
    /\ "gemini" \in failed => pc # "terminated" /\ gm = EmptyBook

\* C7: on a fresh limiter used by one thread, of two calls less than 2
\* seconds apart exactly one returns true, the first; a third call at least
\* 2 seconds after the first returns true.
C7_FirstOfTwoThenThird ==
    /\ (Len(calls) >= 2 /\ calls[2].at - calls[1].at < Cooldown)
            => calls[1].ret /\ ~calls[2].ret
    /\ (Len(calls) >= 3 /\ calls[2].at - calls[1].at < Cooldown
                        /\ calls[3].at - calls[1].at >= Cooldown)
            => calls[3].ret

\* C8 as stated: aggregating [A, B] and [B, A] gives the same buy cost and
\* the same sell revenue, also when levels share a price and differ in quantity.
C8_MergeOrderIrrelevant ==
    Len(out) = 4 => out[1] = out[3] /\ out[2] = out[4]

\* C8 as amended: aggregating [A, B] and [B, A] gives the same buy cost and
\* the same sell revenue whenever the levels that share a price share their
\* quantity too.
C8_MergeOrderIrrelevantWithoutTies ==
    (Len(out) = 4 /\ NoUnequalTies(asks) /\ NoUnequalTies(bids)) =>
        out[1] = out[3] /\ out[2] = out[4]

\* both merge orders of two non-empty ask books were matched, the orders differ
\* as sequences, and no two levels tie on price with different quantities
C8_BothOrdersMatched ==
    /\ Len(out) = 4
    /\ NoUnequalTies(asks)
    /\ Len(cb.asks) > 0
    /\ Len(gm.asks) > 0
    /\ cb.asks \o gm.asks # gm.asks \o cb.asks
    /\ out[1] > 0
    /\ out[1] = out[3]

\* C9: a call to allow() that returns false leaves lastCallNs as it was,
\* whether the elapsed-time test or the compare-and-swap refused it;
\* lastCallNs is written only by a call that returns true.
C9_FalseWritesNothing ==
    [][/\ (Len(calls') > Len(calls) /\ ~calls'[Len(calls')].ret)
            => lastCallNs' = lastCallNs
       /\ lastCallNs' # lastCallNs
            => Len(calls') > Len(calls) /\ calls'[Len(calls')].ret]_vars

\* one call lost its compare-and-swap, another failed the elapsed-time test,
\* and some call has written the timestamp
C9_BothKindsOfFalse ==
    /\ \E k \in 1..Len(calls) : calls[k].cas /\ ~calls[k].ret
    /\ \E k \in 1..Len(calls) : ~calls[k].cas /\ ~calls[k].ret
    /\ lastCallNs[Shared] # 0

\* C10: lastCallNs never decreases; every change raises it by at least the
\* cooldown, also when the clock sample is stale by the time of the swap.
C10_TimestampAdvances ==
    [][lastCallNs'[Shared] # lastCallNs[Shared]
            => lastCallNs'[Shared] >= lastCallNs[Shared] + Cooldown]_vars

\* two calls have won, one of them swapping after the clock left its sample
C10_TwoWinsOneStale ==
    /\ Len(wins) >= 2
    /\ \E k \in 1..Len(wins) : wins[k].at > wins[k].sample

====
